---------------------------- MODULE Spec2Model ----------------------------
(***************************************************************************)
(* A model of rex-radio-api (src/main.py and the request/document models). *)
(*                                                                         *)
(* Five parts of the program are modelled, each with its own next-state    *)
(* relation over the part of the state it touches:                         *)
(*   Spec            the running application: lifespan, then dispatch of   *)
(*                   requests through the middleware stack to the routes   *)
(*   SpecGate        hmac_auth and verify_signature, applied to requests   *)
(*   SpecExpand      ScheduleInput validation and expand_schedule_inputs   *)
(*   SpecPresenters  the /presenters handlers over the presenter store     *)
(*   SpecConfig      interleaved PATCH /config requests over the           *)
(*                   configuration store                                   *)
(*                                                                         *)
(* Text that the code inspects character by character (times, day tokens,  *)
(* timestamps) is a tuple of one-character strings; Str turns it into the  *)
(* string it spells.  An Optional[...] value is <<>> for None and <<v>>    *)
(* for a value v.                                                          *)
(***************************************************************************)
EXTENDS Integers, Sequences, FiniteSets, TLC

VARIABLES
    now,          \* time.time(), in whole seconds
    hmac_secret,  \* app.state.hmac_secret: <<>> while the attribute is unset
    started,      \* the lifespan start-up has completed
    gate,         \* the last hmac_auth call: request and outcome
    served,       \* the last request the running application dispatched
    items,        \* the argument of expand_schedule_inputs being built
    xres,         \* the last expand_schedule_inputs call and its outcome
    store,        \* the presenters collection: id -> document
    nextId,       \* the next ObjectId the presenters collection hands out
    presp,        \* the last /presenters request and its response
    docs,         \* the configuration collection, in insertion order
    reqs,         \* the in-flight PATCH /config requests
    cfgRead       \* the last GET /config/{field} response

vars == <<now, hmac_secret, started, gate, served, items, xres,
          store, nextId, presp, docs, reqs, cfgRead>>

authVars == <<now, hmac_secret, started, gate, served>>
expandVars == <<items, xres>>
presenterVars == <<store, nextId, presp>>
configVars == <<docs, reqs, cfgRead>>

-----------------------------------------------------------------------------
(* Text helpers                                                            *)

None == <<>>
Some(v) == <<v>>

\* Python truthiness of an Optional[str] or Optional[list] whose text is a
\* tuple of characters: None, "" and [] are falsy.
Truthy(o) == o # None /\ o[1] # <<>>

RECURSIVE Str(_)
Str(cs) == IF cs = <<>> THEN "" ELSE Head(cs) \o Str(Tail(cs))

Range(f) == {f[i] : i \in DOMAIN f}

AsciiDigits == {"0", "1", "2", "3", "4", "5", "6", "7", "8", "9"}

DigitVal == [c \in AsciiDigits |->
    CASE c = "0" -> 0 [] c = "1" -> 1 [] c = "2" -> 2 [] c = "3" -> 3
      [] c = "4" -> 4 [] c = "5" -> 5 [] c = "6" -> 6 [] c = "7" -> 7
      [] c = "8" -> 8 [] c = "9" -> 9]

DigitChar == <<"0", "1", "2", "3", "4", "5", "6", "7", "8", "9">>

\* str(n) for a natural number n: what a client sends as x-timestamp.
RECURSIVE Dec(_)
Dec(n) == IF n < 10 THEN <<DigitChar[n + 1]>>
          ELSE Append(Dec(n \div 10), DigitChar[(n % 10) + 1])

Whitespace == {" ", "\t", "\n", "\r"}

RECURSIVE LStrip(_)
LStrip(cs) == IF cs # <<>> /\ Head(cs) \in Whitespace THEN LStrip(Tail(cs)) ELSE cs

RECURSIVE RStrip(_)
RStrip(cs) == IF cs # <<>> /\ cs[Len(cs)] \in Whitespace
              THEN RStrip(SubSeq(cs, 1, Len(cs) - 1)) ELSE cs

\* str.strip()
Strip(cs) == RStrip(LStrip(cs))

UpperLetters == <<"A", "B", "C", "D", "E", "F", "G", "H", "I", "J", "K", "L", "M",
                  "N", "O", "P", "Q", "R", "S", "T", "U", "V", "W", "X", "Y", "Z">>
LowerLetters == <<"a", "b", "c", "d", "e", "f", "g", "h", "i", "j", "k", "l", "m",
                  "n", "o", "p", "q", "r", "s", "t", "u", "v", "w", "x", "y", "z">>

LowerChar(c) == IF \E i \in 1..26 : UpperLetters[i] = c
                THEN LowerLetters[CHOOSE i \in 1..26 : UpperLetters[i] = c]
                ELSE c

UpperChar(c) == IF \E i \in 1..26 : LowerLetters[i] = c
                THEN UpperLetters[CHOOSE i \in 1..26 : LowerLetters[i] = c]
                ELSE c

\* str.lower() and str.upper()
Lower(cs) == [i \in 1..Len(cs) |-> LowerChar(cs[i])]
Upper(cs) == [i \in 1..Len(cs) |-> UpperChar(cs[i])]

-----------------------------------------------------------------------------
(* verify_signature (src/main.py:113-129)                                  *)

\* The freshness window of main.py:116, in seconds.
FRESHNESS == 300

\* The clock's first value and the number of seconds it may advance.
Now0 == 1000
MaxTicks == 1

T_nan == <<"n", "a", "n">>
T_NaN == <<"N", "a", "N">>
T_inf == <<"i", "n", "f">>
T_abc == <<"a", "b", "c">>

\* float(str): surrounding whitespace is dropped, then an optional sign, then
\* "nan", "inf" or "infinity" in any case, or a decimal number.  Of the decimal
\* syntax only digit strings are modelled (no fraction, exponent or
\* underscore); every other text is a ValueError.
ParseFloat(ts) ==
    LET s == Lower(Strip(ts))
        signed == s # <<>> /\ Head(s) \in {"+", "-"}
        neg == s # <<>> /\ Head(s) = "-"
        body == IF signed THEN Tail(s) ELSE s
    IN  IF body = T_nan THEN [kind |-> "nan", val |-> 0]
        ELSE IF body = T_inf \/ Str(body) = "infinity"
             THEN [kind |-> "inf", val |-> IF neg THEN -1 ELSE 1]
        ELSE IF body # <<>> /\ \A i \in 1..Len(body) : body[i] \in AsciiDigits
             THEN LET RECURSIVE V(_)
                      V(k) == IF k = 0 THEN 0 ELSE V(k - 1) * 10 + DigitVal[body[k]]
                  IN  [kind |-> "num", val |-> IF neg THEN -V(Len(body)) ELSE V(Len(body))]
        ELSE [kind |-> "error", val |-> 0]

Abs(x) == IF x < 0 THEN -x ELSE x

\* abs(time.time() - float(timestamp)) > 300, for a timestamp float() took:
\* every comparison with nan is False, and an infinite drift exceeds any bound.
TooOld(t, f) ==
    CASE f.kind = "nan" -> FALSE
      [] f.kind = "inf" -> TRUE
      [] OTHER -> Abs(t - f.val) > FRESHNESS

\* f"{timestamp}{method}{path}".encode() + body
Message(ts, method, path, body) == Str(ts) \o method \o path \o body

\* base64.b64encode(hmac.new(secret, message, sha512).digest()).decode():
\* HMAC is taken as injective in (key, message), and base64 text is ASCII.
Sign(key, msg) == [kind |-> "b64", key |-> key, msg |-> msg]

\* Other texts a client may send as x-signature.
SigEmpty == [kind |-> "empty", key |-> "", msg |-> ""]
SigGarbage == [kind |-> "garbage", key |-> "", msg |-> ""]
SigNonAscii == [kind |-> "nonascii", key |-> "", msg |-> ""]

IsAscii(sig) == sig.kind # "nonascii"

\* hmac.compare_digest(a, b) on two str: a TypeError unless both are ASCII.
CompareDigest(a, b) ==
    IF IsAscii(a) /\ IsAscii(b) THEN [raised |-> FALSE, value |-> a = b]
    ELSE [raised |-> TRUE, value |-> FALSE]

Returns(b) == [raised |-> FALSE, value |-> b]

verify_signature(method, path, body, timestamp, signature, secret, t) ==
    LET f == ParseFloat(timestamp)
    IN  IF f.kind = "error" THEN Returns(FALSE)
        ELSE IF TooOld(t, f) THEN Returns(FALSE)
        ELSE CompareDigest(Sign(secret, Message(timestamp, method, path, body)),
                           signature)


-----------------------------------------------------------------------------
(* hmac_auth (src/main.py:132-170)                                         *)

M_GET == <<"G", "E", "T">>
M_HEAD == <<"H", "E", "A", "D">>
M_DELETE == <<"D", "E", "L", "E", "T", "E">>
M_POST == <<"P", "O", "S", "T">>
M_PATCH == <<"P", "A", "T", "C", "H">>
M_post == <<"p", "o", "s", "t">>
M_get == <<"g", "e", "t">>

Methods == {M_GET, M_HEAD, M_DELETE, M_POST, M_PATCH, M_post, M_get}
Paths == {"/", "/docs", "/openapi.json", "/config", "/presenters"}
Bodies == {"", "{}"}

\* What a client may send as x-timestamp: absent, empty, the decimal text of
\* a time around the freshness bound, or text that is no decimal number.
Timestamps ==
    {None, Some(<<>>), Some(T_nan), Some(T_NaN), Some(T_inf), Some(T_abc)}
    \cup {Some(Dec(n)) : n \in {Now0 - FRESHNESS - 1, Now0 - FRESHNESS,
                                Now0 - FRESHNESS + 1, Now0,
                                Now0 + FRESHNESS, Now0 + FRESHNESS + 1,
                                Now0 + FRESHNESS + 2}}

\* The keys a client may sign with.
ClientKeys == {"s3cr3t", "default_secret", "", "wrong"}

\* What a client may send as x-signature for a request: absent, empty, text
\* that is no signature, or the signature, under one of its keys, of the
\* request's timestamp, upper-cased method and path with some body.
Signatures(ts, method, path) ==
    {None, Some(SigEmpty), Some(SigGarbage), Some(SigNonAscii)}
    \cup {Some(Sign(k, Message(IF ts = None THEN <<>> ELSE ts[1],
                               Str(Upper(method)), path, b))) :
            k \in ClientKeys, b \in Bodies}

Requests ==
    UNION {UNION {{[method |-> m, path |-> p, body |-> b,
                    x_timestamp |-> ts, x_signature |-> sg] :
                      b \in Bodies, sg \in Signatures(ts, m, p)} :
                  ts \in Timestamps} :
           m \in Methods, p \in Paths}

ExemptPaths == {"/", "/docs", "/openapi.json"}

\* `not signature` / `not timestamp` for a header value (main.py:143)
HeaderMissing(sig) == sig = None \/ sig[1].kind = "empty"
TimestampMissing(ts) == ~Truthy(ts)

\* main.py:155: the methods whose body is read and signed
ReadsBody_fewer(method) == method \notin {"GET", "HEAD"}
ReadsBody(method) == method \notin {"GET", "HEAD", "DELETE"}

\* main.py:160: `not secret`, for None and for b""
SecretMissing_onlyNone(secret) == secret = None
SecretMissing(secret) == secret = None \/ secret[1] = ""

NoRequest == [method |-> <<>>, path |-> "", body |-> "",
              x_timestamp |-> None, x_signature |-> None]

\* The outcome of one hmac_auth call, with the secret and the time it was
\* made with.  kind: call_next, response (with its
\* status) or raise (an exception leaves hmac_auth); body_read: request.body()
\* was awaited; verify: what verify_signature did; signed_body: the body it
\* was given.
Outcome(req, secret, t, kind, status, body_read, verify, signed_body) ==
    [req |-> req, secret |-> secret, at |-> t, kind |-> kind, status |-> status, body_read |-> body_read,
     verify |-> verify, signed_body |-> signed_body, handler |-> ""]

NoOutcome == Outcome(NoRequest, None, 0, "none", 0, FALSE, "not_called", "")

hmac_auth(req, secret, t) ==
    IF req.path \in ExemptPaths
    THEN Outcome(req, secret, t, "call_next", 0, FALSE, "not_called", "")
    ELSE IF HeaderMissing(req.x_signature) \/ TimestampMissing(req.x_timestamp)
    THEN Outcome(req, secret, t, "response", 401, FALSE, "not_called", "")
    ELSE
      LET method == Str(Upper(req.method))
          read == ReadsBody(method)
          body == IF read THEN req.body ELSE ""
      IN  IF SecretMissing(secret)
          THEN Outcome(req, secret, t, "response", 500, read, "not_called", "")
          ELSE
            LET v == verify_signature(method, req.path, body, req.x_timestamp[1],
                                      req.x_signature[1], secret[1], t)
            IN  IF v.raised THEN Outcome(req, secret, t, "raise", 0, read, "raised", body)
                ELSE IF ~v.value THEN Outcome(req, secret, t, "response", 401, read, "false", body)
                ELSE Outcome(req, secret, t, "call_next", 0, read, "true", body)

\* lifespan (main.py:26-55), as far as the secret goes: HMAC_SECRET from the
\* environment (unset, empty or set), with the default of main.py:34.
Environment == {None, Some(""), Some("s3cr3t")}

Lifespan ==
    /\ ~started
    /\ \E env \in Environment :
         hmac_secret' = Some(IF env = None THEN "default_secret" ELSE env[1])
    /\ started' = TRUE
    /\ UNCHANGED <<now, gate, served, expandVars, presenterVars, configVars>>

Tick ==
    /\ now < Now0 + MaxTicks
    /\ now' = now + 1
    /\ UNCHANGED <<hmac_secret, started, gate, served,
                   expandVars, presenterVars, configVars>>

\* One call of hmac_auth(request, call_next).  A call made before start-up
\* finds no hmac_secret attribute, the case getattr(..., None) at main.py:159
\* answers; request.body() is taken to complete.
GateCall ==
    /\ gate = NoOutcome
    /\ \E req \in Requests : gate' = hmac_auth(req, hmac_secret, now)
    /\ UNCHANGED <<now, hmac_secret, started, served,
                   expandVars, presenterVars, configVars>>

\* The call has returned; the next one may start.
GateReturn ==
    /\ gate # NoOutcome
    /\ gate' = NoOutcome
    /\ UNCHANGED <<now, hmac_secret, started, served,
                   expandVars, presenterVars, configVars>>

-----------------------------------------------------------------------------
(* The running application (src/main.py:59 and the route decorators)       *)

\* app = FastAPI(lifespan=lifespan): no middleware is added anywhere, and the
\* @app.middleware("http") line above hmac_auth (main.py:131) is a comment.
user_middleware == <<>>

\* The route table: the handler of a method and path, "" when none matches.
Route(method, path) ==
    CASE method = "GET" /\ path = "/" -> "read_root"
      [] method = "GET" /\ path = "/docs" -> "swagger_ui_html"
      [] method = "GET" /\ path = "/openapi.json" -> "openapi"
      [] method = "PATCH" /\ path = "/config" -> "update_configuration"
      [] method = "POST" /\ path = "/presenters" -> "create_presenter"
      [] method = "GET" /\ path = "/presenters" -> "list_presenters"
      [] OTHER -> ""

\* The router, reached by call_next or directly: the handler runs when a
\* route matches, and the router answers 404 or 405 itself otherwise.
Routed(o) ==
    LET h == Route(Str(o.req.method), o.req.path)
    IN  IF h = "" THEN [o EXCEPT !.kind = "response",
                                 !.status = IF o.req.path = "/config" \/ o.req.path = "/presenters"
                                            THEN 405 ELSE 404]
        ELSE [o EXCEPT !.kind = "handler", !.handler = h]

\* One request through the application: the middleware stack, then the router.
App(req, secret, t) ==
    IF "hmac_auth" \in Range(user_middleware)
    THEN LET g == hmac_auth(req, secret, t)
         IN  IF g.kind = "call_next" THEN Routed(g) ELSE g
    ELSE Routed(Outcome(req, secret, t, "call_next", 0, FALSE, "not_run", ""))

Dispatch ==
    /\ started
    /\ served = NoOutcome
    /\ \E req \in Requests : served' = App(req, hmac_secret, now)
    /\ UNCHANGED <<now, hmac_secret, started, gate,
                   expandVars, presenterVars, configVars>>

\* The response has been sent; the next request may arrive.
Respond ==
    /\ served # NoOutcome
    /\ served' = NoOutcome
    /\ UNCHANGED <<now, hmac_secret, started, gate,
                   expandVars, presenterVars, configVars>>

-----------------------------------------------------------------------------
(* ScheduleSlot (src/models/presenter.py:17-39)                            *)

days_of_week == {"monday", "tuesday", "wednesday", "thursday", "friday",
                 "saturday", "sunday"}

\* A decimal digit outside ASCII (ARABIC-INDIC DIGIT EIGHT), as one character.
UnicodeDigits == {"U+0668"}

\* \d in a str pattern compiled without re.ASCII: any Unicode decimal digit.
IsDigit(c) == c \in AsciiDigits \cup UnicodeDigits

\* ord(c), for the characters of the times below.
CodePoint(c) ==
    CASE c = "\n" -> 10
      [] c = " " -> 32
      [] c \in AsciiDigits -> 48 + DigitVal[c]
      [] c = ":" -> 58
      [] c = "U+0668" -> 1640

\* a <= b on str: lexicographic by code point.
RECURSIVE StrLeq(_, _)
StrLeq(a, b) ==
    IF a = <<>> THEN TRUE
    ELSE IF b = <<>> THEN FALSE
    ELSE IF Head(a) # Head(b) THEN CodePoint(Head(a)) < CodePoint(Head(b))
    ELSE StrLeq(Tail(a), Tail(b))

\* _TIME_RE.match(v) for ^(?:[01]\d|2[0-3]):[0-5]\d$ : without re.MULTILINE,
\* $ matches at the end of the text and also just before a newline that ends it.
TimeReMatch(v) ==
    /\ Len(v) = 5 \/ (Len(v) = 6 /\ v[6] = "\n")
    /\ \/ v[1] \in {"0", "1"} /\ IsDigit(v[2])
       \/ v[1] = "2" /\ v[2] \in {"0", "1", "2", "3"}
    /\ v[3] = ":"
    /\ v[4] \in {"0", "1", "2", "3", "4", "5"}
    /\ IsDigit(v[5])

\* validate_time (presenter.py:25-30)
validate_time(v) == TimeReMatch(v)

\* validate_range (presenter.py:32-39): info.data holds start only when start
\* passed its own validator.
validate_range(v, start, startOk) ==
    ~(startOk /\ start # <<>> /\ StrLeq(v, start))

\* ScheduleSlot(day=..., start=..., end=...): the slot, or a ValidationError.
ScheduleSlot(day, start, end) ==
    LET startOk == validate_time(start)
        endOk == validate_time(end) /\ validate_range(end, start, startOk)
    IN  IF day \in days_of_week /\ startOk /\ endOk
        THEN [ok |-> TRUE, slot |-> [day |-> day, start |-> start, end |-> end]]
        ELSE [ok |-> FALSE, slot |-> [day |-> "", start |-> <<>>, end |-> <<>>]]

-----------------------------------------------------------------------------
(* canonicalize_day and expand_schedule_inputs (src/main.py:174-221)       *)

DAY_ALIASES ==
    ("mon" :> "monday") @@ ("monday" :> "monday")
    @@ ("tue" :> "tuesday") @@ ("tues" :> "tuesday") @@ ("tuesday" :> "tuesday")
    @@ ("wed" :> "wednesday") @@ ("weds" :> "wednesday") @@ ("wednesday" :> "wednesday")
    @@ ("thu" :> "thursday") @@ ("thur" :> "thursday") @@ ("thurs" :> "thursday")
    @@ ("thursday" :> "thursday")
    @@ ("fri" :> "friday") @@ ("friday" :> "friday")
    @@ ("sat" :> "saturday") @@ ("saturday" :> "saturday")
    @@ ("sun" :> "sunday") @@ ("sunday" :> "sunday")

\* canonicalize_day(token): the canonical day, or HTTPException(400).
canonicalize_day(token) ==
    LET key == Str(Lower(Strip(token)))
    IN  IF key \notin DOMAIN DAY_ALIASES THEN [ok |-> FALSE, day |-> ""]
        ELSE [ok |-> TRUE, day |-> DAY_ALIASES[key]]

\* What a call of expand_schedule_inputs ends with: the slots, an
\* HTTPException (status and detail) or a pydantic ValidationError.
Slots(slots) == [kind |-> "ok", status |-> 0, detail |-> "", slots |-> slots]
HttpError(status, detail) ==
    [kind |-> "HTTPException", status |-> status, detail |-> detail, slots |-> <<>>]
ValidationError ==
    [kind |-> "ValidationError", status |-> 0, detail |-> "", slots |-> <<>>]

MissingDayDetail == "Each schedule item must include 'day' or 'days'"

\* main.py:214-220: the day tokens an item expands to: those of days when
\* days is non-empty, else day alone when day is non-empty, else none.
DayTokens_dayFirst(it) ==
    IF Truthy(it.day) THEN Some(<<it.day[1]>>)
    ELSE IF Truthy(it.days) THEN Some(it.days[1])
    ELSE None
DayTokens(it) ==
    IF Truthy(it.days) THEN Some(it.days[1])
    ELSE IF Truthy(it.day) THEN Some(<<it.day[1]>>)
    ELSE None

\* main.py:215-216 (and 218): one slot appended per day token, in order; the
\* first token or slot that fails ends the call.
RECURSIVE AppendSlots(_, _, _, _)
AppendSlots(slots, tokens, start, end) ==
    IF tokens = <<>> THEN Slots(slots)
    ELSE LET c == canonicalize_day(Head(tokens))
         IN  IF ~c.ok THEN HttpError(400, "Invalid day")
             ELSE LET s == ScheduleSlot(c.day, start, end)
                  IN  IF ~s.ok THEN ValidationError
                      ELSE AppendSlots(Append(slots, s.slot), Tail(tokens), start, end)

\* main.py:193-221: the loop over the items, from the slots gathered so far.
RECURSIVE ExpandFrom(_, _)
ExpandFrom(slots, its) ==
    IF its = <<>> THEN Slots(slots)
    ELSE LET tokens == DayTokens(Head(its))
         IN  IF tokens = None THEN HttpError(400, MissingDayDetail)
             ELSE LET r == AppendSlots(slots, tokens[1], Head(its).start, Head(its).end)
                  IN  IF r.kind # "ok" THEN r ELSE ExpandFrom(r.slots, Tail(its))

expand_schedule_inputs(its) == ExpandFrom(<<>>, its)

\* ScheduleInput._one_of_day_days (src/requests/presenter_requests.py:13-17):
\* the item passes the model validator.
ScheduleInputValid_exactlyOne(it) == Truthy(it.day) # Truthy(it.days)
ScheduleInputValid(it) == ~(~Truthy(it.day) /\ ~Truthy(it.days))

\* Times and day tokens a client may send.
T_0800 == <<"0", "8", ":", "0", "0">>
T_1000 == <<"1", "0", ":", "0", "0">>
T_800 == <<"8", ":", "0", "0">>
T_0800nl == <<"0", "8", ":", "0", "0", "\n">>
T_0u00 == <<"0", "U+0668", ":", "0", "0">>

D_mon == <<"m", "o", "n">>
D_tue == <<"t", "u", "e">>
D_TUE_sp == <<" ", "T", "U", "E", " ">>
D_Fri == <<"F", "r", "i">>
D_xyz == <<"x", "y", "z">>

\* The schedule items expand_schedule_inputs is applied to.
DayPool == {None, Some(<<>>), Some(D_Fri)}
DaysPool == {None, Some(<<>>), Some(<<D_mon, D_tue>>),
             Some(<<D_TUE_sp, D_mon, D_mon>>), Some(<<D_mon, D_xyz>>)}
TimesPool == {<<T_0800, T_1000>>, <<T_1000, T_0800>>, <<T_800, T_1000>>}

ItemPool == {[day |-> d, days |-> ds, start |-> t[1], end |-> t[2]] :
                d \in DayPool, ds \in DaysPool, t \in TimesPool}

\* The longest list of items given to expand_schedule_inputs.
MaxItems == 2

NoCall == [called |-> FALSE, args |-> <<>>, validated |-> <<>>, out |-> Slots(<<>>)]

\* The caller puts one more item on the list it will pass.
AddItem ==
    /\ ~xres.called
    /\ Len(items) < MaxItems
    /\ \E it \in ItemPool : items' = Append(items, it)
    /\ UNCHANGED <<xres, authVars, presenterVars, configVars>>

\* Each item is validated as a ScheduleInput and the list is expanded.
CallExpand ==
    /\ ~xres.called
    /\ xres' = [called |-> TRUE, args |-> items,
                validated |-> [i \in 1..Len(items) |-> ScheduleInputValid(items[i])],
                out |-> expand_schedule_inputs(items)]
    /\ UNCHANGED <<items, authVars, presenterVars, configVars>>

\* The call has returned; the caller starts on a new list.
ExpandReturn ==
    /\ xres.called
    /\ items' = <<>>
    /\ xres' = NoCall
    /\ UNCHANGED <<authVars, presenterVars, configVars>>

-----------------------------------------------------------------------------
(* The /presenters handlers (src/main.py:224-302)                          *)

\* A field of UpdatePresenterRequest: <<>> when the request does not set it
\* (model_dump(exclude_unset=True) leaves it out), <<v>> when it sets it to v.
Unset == <<>>
Set(v) == <<v>>

Item(day, days, start, end) == [day |-> day, days |-> days, start |-> start, end |-> end]

\* The schedules a client may send with a presenter.
ScheduleLists ==
    { <<>>,
      <<Item(Some(D_Fri), None, T_0800, T_1000)>>,
      <<Item(None, Some(<<D_mon, D_TUE_sp>>), T_0800, T_1000)>>,
      <<Item(Some(D_Fri), None, T_1000, T_0800)>>,
      <<Item(Some(D_Fri), None, T_800, T_1000)>>,
      <<Item(None, Some(<<D_mon, D_xyz>>), T_0800, T_1000)>>,
      <<Item(None, None, T_0800, T_1000)>>,
      <<Item(Some(D_Fri), None, T_0800, T_0800nl)>>,
      <<Item(Some(D_Fri), None, T_0u00, T_1000)>>,
      <<Item(Some(D_Fri), None, T_0800, T_1000),
        Item(Some(D_mon), None, T_1000, T_0800)>> }

Names == {"", "Rex"}

\* (model_id, voice_model) of a CreatePresenterRequest
ModelIds == {<<None, None>>, <<Some("m1"), None>>, <<None, Some("v1")>>,
             <<Some(""), Some("v1")>>, <<None, Some("")>>}

CreatePayloads ==
    {[name |-> n, voice_id |-> "voice", model_id |-> m[1], voice_model |-> m[2],
      schedules |-> l] : n \in Names, m \in ModelIds, l \in ScheduleLists}

\* UpdatePresenterRequest bodies; voice_id, model_id and roles are left unset.
UpdatePayloads ==
    {[name |-> n, voice_model |-> vm, schedules |-> sc] :
        n \in {Unset, Set(Some("Max"))},
        vm \in {Unset, Set(Some("v1"))},
        sc \in {Unset, Set(None)} \cup {Set(Some(l)) : l \in ScheduleLists}}

\* The most presenters ever inserted.
MaxPresenters == 2

PresenterIds == 1..MaxPresenters

\* The response to one /presenters request.  wrote: insert(), save() or
\* delete() ran; before: the collection when the request arrived.
Response(op, id, sched, status, wrote, before) ==
    [op |-> op, id |-> id, sched |-> sched, status |-> status,
     wrote |-> wrote, before |-> before]

NoResponse == Response("none", 0, Unset, 0, FALSE, <<>>)

\* Presenter.get(presenter_id)
Found(id) == id \in DOMAIN store

\* FastAPI validates the body against the request model before the handler
\* runs and answers 422 itself: name and voice_id have min_length=1, and every
\* schedule item must pass ScheduleInput's validator.
CreateRequestValid(payload) ==
    /\ payload.name # "" /\ payload.voice_id # ""
    /\ \A i \in DOMAIN payload.schedules : ScheduleInputValid(payload.schedules[i])

UpdateRequestValid(payload) ==
    (payload.schedules # Unset /\ payload.schedules[1] # None) =>
        \A i \in DOMAIN payload.schedules[1][1] :
            ScheduleInputValid(payload.schedules[1][1][i])

\* payload.model_id or payload.voice_model (main.py:228)
ModelIdOf(payload) ==
    IF payload.model_id # None /\ payload.model_id[1] # "" THEN payload.model_id
    ELSE payload.voice_model

\* POST /presenters (main.py:224-250)
create_presenter ==
    /\ presp = NoResponse
    /\ nextId <= MaxPresenters
    /\ \E payload \in CreatePayloads :
         LET sched == Set(Some(payload.schedules))
             model_id == ModelIdOf(payload)
             x == expand_schedule_inputs(payload.schedules)
             answer(status) == Response("create", 0, sched, status, FALSE, store)
         IN  IF ~CreateRequestValid(payload)
             THEN presp' = answer(422) /\ UNCHANGED <<store, nextId>>
             ELSE IF model_id = None \/ model_id[1] = ""
             THEN presp' = answer(400) /\ UNCHANGED <<store, nextId>>
             ELSE IF x.kind = "HTTPException"
             THEN presp' = answer(x.status) /\ UNCHANGED <<store, nextId>>
             ELSE IF x.kind = "ValidationError"
             THEN presp' = answer(400) /\ UNCHANGED <<store, nextId>>
             ELSE /\ store' = store @@ (nextId :>
                        [name |-> payload.name, model_id |-> model_id[1],
                         schedules |-> x.slots])
                  /\ nextId' = nextId + 1
                  /\ presp' = Response("create", nextId, sched, 200, TRUE, store)
    /\ UNCHANGED <<authVars, expandVars, configVars>>

\* GET /presenters (main.py:253-256)
list_presenters ==
    /\ presp = NoResponse
    /\ presp' = Response("list", 0, Unset, 200, FALSE, store)
    /\ UNCHANGED <<store, nextId, authVars, expandVars, configVars>>

\* GET /presenters/{presenter_id} (main.py:259-264)
get_presenter ==
    /\ presp = NoResponse
    /\ \E id \in PresenterIds :
         presp' = Response("get", id, Unset, IF Found(id) THEN 200 ELSE 404, FALSE, store)
    /\ UNCHANGED <<store, nextId, authVars, expandVars, configVars>>

\* main.py:281-282, as it ends for an update's schedules field: expansion runs
\* only when the field is set and not null.
UpdateExpansion(payload) ==
    IF payload.schedules # Unset /\ payload.schedules[1] # None
    THEN expand_schedule_inputs(payload.schedules[1][1])
    ELSE Slots(<<>>)

\* main.py:284-285: the document after setattr of every field that is set;
\* voice_model, when truthy, lands in model_id (main.py:276-278), and a null
\* schedules is stored as it is (no slot).
Updated(doc, payload, x) ==
    [name |-> IF payload.name = Unset THEN doc.name ELSE payload.name[1][1],
     model_id |-> IF payload.voice_model = Unset \/ payload.voice_model[1] = None
                     \/ payload.voice_model[1][1] = ""
                  THEN doc.model_id
                  ELSE payload.voice_model[1][1],
     schedules |-> IF payload.schedules = Unset THEN doc.schedules
                   ELSE IF payload.schedules[1] = None THEN None
                   ELSE x.slots]

\* The status the caller sees when an exception leaves a handler: FastAPI
\* answers an HTTPException with its status code, and anything else, a
\* pydantic ValidationError included, is a 500 from the server.
EscapedStatus(x) == IF x.kind = "HTTPException" THEN x.status ELSE 500

\* PATCH /presenters/{presenter_id} (main.py:267-293): the expansion of
\* main.py:282 is outside the try block of main.py:287.
update_presenter ==
    /\ presp = NoResponse
    /\ \E id \in PresenterIds, payload \in UpdatePayloads :
         LET x == UpdateExpansion(payload)
             answer(status) == Response("update", id, payload.schedules, status, FALSE, store)
         IN  IF ~UpdateRequestValid(payload)
             THEN presp' = answer(422) /\ UNCHANGED store
             ELSE IF ~Found(id)
             THEN presp' = answer(404) /\ UNCHANGED store
             ELSE IF x.kind # "ok"
             THEN presp' = answer(EscapedStatus(x)) /\ UNCHANGED store
             ELSE /\ store' = [store EXCEPT ![id] = Updated(store[id], payload, x)]
                  /\ presp' = Response("update", id, payload.schedules, 200, TRUE, store)
    /\ UNCHANGED <<nextId, authVars, expandVars, configVars>>

\* DELETE /presenters/{presenter_id} (main.py:296-302)
delete_presenter ==
    /\ presp = NoResponse
    /\ \E id \in PresenterIds :
         IF ~Found(id)
         THEN presp' = Response("delete", id, Unset, 404, FALSE, store) /\ UNCHANGED store
         ELSE /\ store' = [i \in DOMAIN store \ {id} |-> store[i]]
              /\ presp' = Response("delete", id, Unset, 204, TRUE, store)
    /\ UNCHANGED <<nextId, authVars, expandVars, configVars>>

\* The response has been sent; the next request may arrive.
PresenterRespond ==
    /\ presp # NoResponse
    /\ presp' = NoResponse
    /\ UNCHANGED <<store, nextId, authVars, expandVars, configVars>>

-----------------------------------------------------------------------------
(* GET /config/{field} and PATCH /config (src/main.py:66-111)              *)

\* UpdateConfigurationRequest (src/requests/update_configuration_request.py:4-6)
Fields == {"name", "description", "genres"}
Values == {"A", "B"}

\* The requests in flight at once, and the most updates one carries.
NumRequests == 2
MaxUpdates == 2

Requesters == 1..NumRequests

UpdateLists ==
    UNION {[1..n -> [field : Fields, value : Values]] : n \in 0..MaxUpdates}

\* Configuration.find_one(Configuration.field == field): the position of the
\* first document of that field, 0 when there is none.
find_one(field) ==
    IF \E i \in DOMAIN docs : docs[i].field = field
    THEN CHOOSE i \in DOMAIN docs :
           /\ docs[i].field = field
           /\ \A j \in DOMAIN docs : docs[j].field = field => i <= j
    ELSE 0

\* A PATCH /config request: pc is where its coroutine stands (new: not yet
\* sent; find: before the find_one of update number `next`; write: between
\* that find_one and its set or insert; done: answered 200), and existing is
\* what find_one returned.
NewRequest == [pc |-> "new", updates |-> <<>>, next |-> 1, existing |-> 0]

\* The request arrives with its list of updates (main.py:89-91).
StartUpdate(c) ==
    /\ reqs[c].pc = "new"
    /\ \E ups \in UpdateLists :
         reqs' = [reqs EXCEPT ![c] =
                    [pc |-> IF ups = <<>> THEN "done" ELSE "find",
                     updates |-> ups, next |-> 1, existing |-> 0]]
    /\ UNCHANGED <<docs, cfgRead, authVars, expandVars, presenterVars>>

\* existing = await Configuration.find_one(...) (main.py:92)
FindExisting(c) ==
    /\ reqs[c].pc = "find"
    /\ reqs' = [reqs EXCEPT ![c].pc = "write",
                            ![c].existing = find_one(reqs[c].updates[reqs[c].next].field)]
    /\ UNCHANGED <<docs, cfgRead, authVars, expandVars, presenterVars>>

\* main.py:93-96: the found document is set, or a new one inserted; then the
\* loop goes on to the next update or the request is answered (main.py:98).
WriteUpdate(c) ==
    /\ reqs[c].pc = "write"
    /\ LET u == reqs[c].updates[reqs[c].next]
       IN  docs' = IF reqs[c].existing # 0
                   THEN [docs EXCEPT ![reqs[c].existing].value = u.value]
                   ELSE Append(docs, [field |-> u.field, value |-> u.value])
    /\ reqs' = [reqs EXCEPT ![c].pc = IF reqs[c].next = Len(reqs[c].updates)
                                      THEN "done" ELSE "find",
                            ![c].next = reqs[c].next + 1,
                            ![c].existing = 0]
    /\ UNCHANGED <<cfgRead, authVars, expandVars, presenterVars>>

NoRead == [field |-> "", found |-> FALSE, value |-> ""]

\* GET /config/{field} (main.py:66-85): the value of the document find_one
\* returns, null when there is none.
read_configuration ==
    /\ cfgRead = NoRead
    /\ \E f \in Fields :
         cfgRead' = IF find_one(f) = 0 THEN [field |-> f, found |-> FALSE, value |-> ""]
                    ELSE [field |-> docs[find_one(f)].field, found |-> TRUE,
                          value |-> docs[find_one(f)].value]
    /\ UNCHANGED <<docs, reqs, authVars, expandVars, presenterVars>>

\* The response has been sent; the next GET may arrive.
ReadRespond ==
    /\ cfgRead # NoRead
    /\ cfgRead' = NoRead
    /\ UNCHANGED <<docs, reqs, authVars, expandVars, presenterVars>>

-----------------------------------------------------------------------------
Init ==
    /\ now = Now0
    /\ hmac_secret = None
    /\ started = FALSE
    /\ gate = NoOutcome
    /\ served = NoOutcome
    /\ items = <<>>
    /\ xres = NoCall
    /\ store = <<>>
    /\ nextId = 1
    /\ presp = NoResponse
    /\ docs = <<>>
    /\ reqs = [c \in Requesters |-> NewRequest]
    /\ cfgRead = NoRead

Next == Lifespan \/ Tick \/ Dispatch \/ Respond

Spec == Init /\ [][Next]_vars

NextGate == Lifespan \/ Tick \/ GateCall \/ GateReturn

SpecGate == Init /\ [][NextGate]_vars

NextExpand == AddItem \/ CallExpand \/ ExpandReturn

SpecExpand == Init /\ [][NextExpand]_vars

NextPresenters ==
    \/ create_presenter \/ list_presenters \/ get_presenter
    \/ update_presenter \/ delete_presenter \/ PresenterRespond

SpecPresenters == Init /\ [][NextPresenters]_vars

NextConfig ==
    \/ \E c \in Requesters : StartUpdate(c) \/ FindExisting(c) \/ WriteUpdate(c)
    \/ read_configuration
    \/ ReadRespond

SpecConfig == Init /\ [][NextConfig]_vars

-----------------------------------------------------------------------------
(* Properties of the authentication gate                                   *)

\* The last hmac_auth call reached verify_signature.
VerifyCalled == gate.verify \in {"true", "false", "raised"}

\* What that call of verify_signature was given.
VTimestamp == ParseFloat(gate.req.x_timestamp[1])
VDrift == Abs(gate.at - VTimestamp.val)
VExpected == Sign(gate.secret[1],
                  Message(gate.req.x_timestamp[1], Str(Upper(gate.req.method)),
                          gate.req.path, gate.signed_body))
VMatches == gate.req.x_signature[1] = VExpected

NonExempt(o) == o.kind # "none" /\ o.req.path \notin {"/", "/docs", "/openapi.json"}

\* C1: in the running application a request to a non-exempt path reaches a
\* route handler only after hmac_auth ran and verify_signature returned true
\* for it; every other non-exempt request is rejected.
C1_HandlerOnlyAfterVerification ==
    (NonExempt(served) /\ served.kind = "handler") => served.verify = "true"

\* C2: verify_signature returns true only if the timestamp is a number, the
\* drift is at most 300 s and the signature is the HMAC of the message; a
\* matching signature 299 s old passes, one 301 s off fails, and a timestamp
\* that is not a number (nan included) fails even with a matching signature.
C2_VerifyTrueOnlyIfNumberFreshAndMatching ==
    VerifyCalled =>
      /\ gate.verify = "true" =>
            VTimestamp.kind = "num" /\ VDrift <= 300 /\ VMatches
      /\ (VTimestamp.kind = "num" /\ gate.at - VTimestamp.val = 299 /\ VMatches)
            => gate.verify = "true"
      /\ (VTimestamp.kind = "num" /\ VDrift = 301) => gate.verify = "false"
      /\ VTimestamp.kind # "num" => gate.verify # "true"

\* C3: verify_signature never raises: every call ends with a boolean.
C3_VerifyNeverRaises ==
    VerifyCalled => gate.verify \in {"true", "false"}

GateSecretMissing == gate.secret = None \/ gate.secret = Some("")
GateHeaderMissing ==
    \/ gate.req.x_signature = None \/ gate.req.x_signature = Some(SigEmpty)
    \/ gate.req.x_timestamp = None \/ gate.req.x_timestamp = Some(<<>>)
GateMethod == Str(Upper(gate.req.method))

\* C4 as stated: with the secret absent or empty, hmac_auth answers every
\* non-exempt request with status 500, whatever headers it carries.
C4_MissingSecretAlways500 ==
    (NonExempt(gate) /\ GateSecretMissing) =>
        gate.kind = "response" /\ gate.status = 500

\* C4 as amended: with the secret absent or empty, hmac_auth never passes a
\* non-exempt request on and never calls verify_signature: it answers 401
\* when x-signature or x-timestamp is missing or empty, and 500 otherwise.
C4_MissingSecretRejects ==
    (NonExempt(gate) /\ GateSecretMissing) =>
        /\ gate.kind = "response"
        /\ gate.verify = "not_called"
        /\ gate.status = IF GateHeaderMissing THEN 401 ELSE 500

\* C4's case: an empty secret, both headers present, answered 500.
C4_Witness ==
    /\ NonExempt(gate) /\ gate.secret = Some("") /\ ~GateHeaderMissing
    /\ gate.req.x_signature[1].kind = "b64" /\ gate.req.x_signature[1].key = ""
    /\ gate.kind = "response" /\ gate.status = 500

\* C5: hmac_auth answers a non-exempt request with a missing or empty
\* x-signature or x-timestamp 401 without reading the body; with both headers
\* present it reads the body only if the upper-cased method is not GET, HEAD
\* or DELETE, and otherwise what is signed is the empty byte string.
C5_NoBodyReadBeforeRejection ==
    NonExempt(gate) =>
      /\ GateHeaderMissing =>
            gate.kind = "response" /\ gate.status = 401 /\ ~gate.body_read
      /\ ~GateHeaderMissing =>
            /\ gate.body_read => GateMethod \notin {"GET", "HEAD", "DELETE"}
            /\ (VerifyCalled /\ GateMethod \in {"GET", "HEAD", "DELETE"})
                  => gate.signed_body = ""

\* C5's case: a DELETE that carries a body and both headers is verified over
\* the empty body, which was never read.
C5_Witness ==
    /\ NonExempt(gate) /\ ~GateHeaderMissing
    /\ GateMethod = "DELETE" /\ gate.req.body # ""
    /\ gate.verify = "true" /\ ~gate.body_read /\ gate.signed_body = ""

-----------------------------------------------------------------------------
(* Properties of schedule expansion                                        *)

HasDay(it) == it.day # None /\ it.day[1] # <<>>
HasDays(it) == it.days # None /\ it.days[1] # <<>>

\* A time in strict zero-padded 24-hour HH:MM.
StrictTime(v) ==
    /\ Len(v) = 5 /\ v[3] = ":"
    /\ \A i \in {1, 2, 4, 5} : v[i] \in AsciiDigits
    /\ DigitVal[v[1]] * 10 + DigitVal[v[2]] <= 23
    /\ DigitVal[v[4]] * 10 + DigitVal[v[5]] <= 59

Minutes(v) == (DigitVal[v[1]] * 10 + DigitVal[v[2]]) * 60
              + DigitVal[v[4]] * 10 + DigitVal[v[5]]

\* The day tokens the claims let an item stand for: its days list when that
\* is non-empty, its day otherwise.
ClaimedTokens(it) == IF HasDays(it) THEN it.days[1] ELSE <<it.day[1]>>

KnownToken(tok) == canonicalize_day(tok).ok

\* A valid schedule input: a day or a non-empty days list of known tokens,
\* strict times, end after start.
ValidInput(it) ==
    /\ HasDay(it) \/ HasDays(it)
    /\ \A j \in DOMAIN ClaimedTokens(it) : KnownToken(ClaimedTokens(it)[j])
    /\ StrictTime(it.start) /\ StrictTime(it.end)
    /\ Minutes(it.end) > Minutes(it.start)

\* The number of slots the items before item i stand for.
RECURSIVE SlotsBefore(_, _)
SlotsBefore(its, i) ==
    IF i = 1 THEN 0
    ELSE SlotsBefore(its, i - 1) + Len(ClaimedTokens(its[i - 1]))

\* C7: for a list of valid schedule inputs expand_schedule_inputs returns, in
\* input order, one slot per entry of each item's days list (in list order)
\* or one slot for its day, each with the canonical day and the item's start
\* and end; nothing is merged or dropped.
C7_ExpandIsOrderedConcatenation ==
    (xres.called /\ \A i \in DOMAIN xres.args : ValidInput(xres.args[i])) =>
      /\ xres.out.kind = "ok"
      /\ Len(xres.out.slots) = SlotsBefore(xres.args, Len(xres.args) + 1)
      /\ \A i \in DOMAIN xres.args :
           \A j \in DOMAIN ClaimedTokens(xres.args[i]) :
             xres.out.slots[SlotsBefore(xres.args, i) + j] =
               [day |-> canonicalize_day(ClaimedTokens(xres.args[i])[j]).day,
                start |-> xres.args[i].start, end |-> xres.args[i].end]

\* C7's case: two items, the first a days list with a repeated day, expanded
\* to more slots than items.
C7_Witness ==
    /\ xres.called /\ Len(xres.args) = 2
    /\ \A i \in DOMAIN xres.args : ValidInput(xres.args[i])
    /\ xres.args[1].days = Some(<<D_TUE_sp, D_mon, D_mon>>)
    /\ xres.out.kind = "ok" /\ Len(xres.out.slots) > 3
    /\ xres.out.slots[1].day = "tuesday" /\ xres.out.slots[3].day = "monday"

\* C9 as stated: an item is accepted only if exactly one of day and days is
\* present; one with neither is rejected with the "must include" error, and
\* one with both a day and a non-empty days list produces no slots.
C9_ExactlyOneOfDayDays ==
    xres.called =>
      /\ \A i \in DOMAIN xres.args :
           /\ xres.validated[i] => (HasDay(xres.args[i]) # HasDays(xres.args[i]))
           /\ (~HasDay(xres.args[i]) /\ ~HasDays(xres.args[i])) =>
                 ~xres.validated[i] /\ xres.out.kind # "ok"
      /\ xres.out.kind = "ok" =>
           \A i \in DOMAIN xres.args : HasDay(xres.args[i]) # HasDays(xres.args[i])

\* C9 as amended: ScheduleInput validation accepts an item exactly when at
\* least one of day and days (a non-empty list) is present; a list holding an
\* item with neither is never expanded, and the call ends with the 400 "must
\* include 'day' or 'days'" error when that item is the first to fail; an item
\* with both is accepted and expands to the slots of its days list alone.
C9_AtLeastOneOfDayDays ==
    xres.called =>
      /\ \A i \in DOMAIN xres.args :
           /\ xres.validated[i] <=> (HasDay(xres.args[i]) \/ HasDays(xres.args[i]))
           /\ (~HasDay(xres.args[i]) /\ ~HasDays(xres.args[i])) => xres.out.kind # "ok"
      /\ (xres.args # <<>> /\ ~HasDay(xres.args[1]) /\ ~HasDays(xres.args[1])) =>
           xres.out = HttpError(400, MissingDayDetail)
      /\ (Len(xres.args) = 1 /\ HasDay(xres.args[1]) /\ HasDays(xres.args[1])
            /\ xres.out.kind = "ok") =>
           /\ Len(xres.out.slots) = Len(xres.args[1].days[1])
           /\ \A j \in DOMAIN xres.out.slots :
                xres.out.slots[j].day = canonicalize_day(xres.args[1].days[1][j]).day

\* C9's case: one item with day "Fri" and days ["mon", "tue"] passes validation
\* and expands to monday and tuesday, with no slot for friday.
C9_Witness ==
    /\ xres.called /\ Len(xres.args) = 1
    /\ xres.args[1].day = Some(D_Fri) /\ xres.args[1].days = Some(<<D_mon, D_tue>>)
    /\ xres.validated[1] /\ xres.out.kind = "ok"
    /\ Len(xres.out.slots) = 2
    /\ \A j \in DOMAIN xres.out.slots : xres.out.slots[j].day # "friday"

-----------------------------------------------------------------------------
(* Properties of the presenter store                                       *)

\* Every stored slot has a canonical day, strict HH:MM times and an end after
\* its start.
StoredSlotsValid ==
    \A id \in DOMAIN store :
      \A k \in DOMAIN store[id].schedules :
        LET slot == store[id].schedules[k]
        IN  /\ slot.day \in {"monday", "tuesday", "wednesday", "thursday",
                             "friday", "saturday", "sunday"}
            /\ StrictTime(slot.start) /\ StrictTime(slot.end)
            /\ Minutes(slot.end) > Minutes(slot.start)

\* The last request was an update that supplied a list of schedules.
UpdateWithSchedules ==
    presp.op = "update" /\ presp.sched # Unset /\ presp.sched[1] # None

\* C6: after any sequence of create, update and delete calls every stored slot
\* has a canonical day, strict zero-padded HH:MM start and end, and end after
\* start; an update that supplies schedules replaces the whole slot list, and
\* one that fails leaves the stored list as it was.
C6_StoredSlotsAreCanonical ==
    /\ StoredSlotsValid
    /\ (UpdateWithSchedules /\ presp.status = 200) =>
          store[presp.id].schedules = expand_schedule_inputs(presp.sched[1][1]).slots
    /\ (presp.op = "update" /\ presp.status # 200) => store = presp.before

\* The schedules of the last request failed validation: an item did not pass
\* ScheduleInput's validator, or expand_schedule_inputs raised.
ScheduleValidationFailed ==
    /\ presp.op \in {"create", "update"}
    /\ presp.sched # Unset /\ presp.sched[1] # None
    /\ \/ \E i \in DOMAIN presp.sched[1][1] : ~ScheduleInputValid(presp.sched[1][1][i])
       \/ expand_schedule_inputs(presp.sched[1][1]).kind # "ok"

\* C8: on POST /presenters and PATCH /presenters/{id} every schedule
\* validation failure is answered with a 400-class status, never a 500-class
\* one, and nothing is written to the presenter store in that request.
C8_ScheduleFailureIs4xx ==
    ScheduleValidationFailed =>
        /\ presp.status \in 400..499
        /\ ~presp.wrote /\ store = presp.before

-----------------------------------------------------------------------------
(* Properties of the configuration store                                   *)

AllAnswered == \A c \in Requesters : reqs[c].pc = "done"

\* C10: under any interleaving of PATCH /config requests the configuration
\* store holds at most one document per field, and once every request is
\* answered the value stored for a field is that of one of the requests that
\* updated the field.
C10_OneDocumentPerField ==
    /\ \A f \in Fields : Cardinality({i \in DOMAIN docs : docs[i].field = f}) <= 1
    /\ AllAnswered =>
         \A i \in DOMAIN docs :
           \E c \in Requesters : \E k \in DOMAIN reqs[c].updates :
             reqs[c].updates[k] = [field |-> docs[i].field, value |-> docs[i].value]

=============================================================================
